---- MODULE Spec2Model ----
\* A model of gensim.corpora.indexedcorpus.IndexedCorpus: an offset index built
\* while a corpus is serialized, persisted with pickle, reloaded in __init__ and
\* used by __len__ and __getitem__.
EXTENDS Integers, Sequences, FiniteSets, TLC

\* ---------------------------------------------------------------- values ----
\* Python's None and a present value, kept in one type (a sequence of length 0 or 1).
None == <<>>
Some(v) == <<v>>
Val(o) == o[1]

\* Longest in-memory document stream handed to serialize.
MaxLen == 1

\* A document is an opaque payload; here it is its own size, 1 or 2 payload bytes.
Docs == {1, 2}
Streams == UNION {[1..k -> Docs] : k \in 0..MaxLen}

\* Corpus files and, for each, the default index file of lines 46-47 and 82-83.
Paths == {"x", "y"}
IndexPaths == {p \o ".index" : p \in Paths}
Handles == {"h1"}

\* Ordinals tried by corpus[docno]: inside, past the end, and negative.
DocNos == (0 - MaxLen - 1)..(MaxLen + 1)

\* ------------------------------------------- collaborators of the class ----
\* utils.pickle(obj, fname): the blob that ends up in the file.
pickle(obj) == [kind |-> "pickle", data |-> obj]

\* The three blobs no serialize has written: no file, bytes that are no pickle,
\* a pickle cut short.
Absent == [kind |-> "absent", data |-> <<>>]
Garbage == [kind |-> "garbage", data |-> <<>>]
Truncated == [kind |-> "truncated", data |-> <<>>]

\* utils.unpickle(fname): the object, or the exception raised.
unpickle(blob) ==
  IF blob.kind = "pickle" THEN [raised |-> "ok", obj |-> blob.data]
  ELSE IF blob.kind = "absent" THEN [raised |-> "IOError", obj |-> <<>>]
  ELSE IF blob.kind = "garbage" THEN [raised |-> "UnpicklingError", obj |-> <<>>]
  ELSE [raised |-> "EOFError", obj |-> <<>>]

\* One document on disk: its payload bytes (1s) and a terminator (0).
docBytes(d) == [i \in 1..d |-> 1] \o <<0>>

\* The bytes of a stream of documents written one after another.
RECURSIVE corpusBytes(_)
corpusBytes(docs) ==
  IF docs = <<>> THEN <<>> ELSE docBytes(Head(docs)) \o corpusBytes(Tail(docs))

\* The byte offset at which each document of the stream begins, first at `at`.
RECURSIVE docOffsets(_, _)
docOffsets(docs, at) ==
  IF docs = <<>> THEN <<>>
  ELSE <<at>> \o docOffsets(Tail(docs), at + Len(docBytes(Head(docs))))

\* serializer.save_corpus(fname, corpus, id2word, ...): writes the documents in
\* stream order and returns their offsets, or None for a format without random
\* access. env.status "IOError" / "crash": the write stops after env.k documents.
save_corpus(serializer, docs, env) ==
  IF env.status = "ok"
  THEN [raised |-> "ok", bytes |-> corpusBytes(docs),
        offsets |-> IF serializer = "indexable" THEN Some(docOffsets(docs, 0)) ELSE None]
  ELSE [raised |-> env.status, bytes |-> corpusBytes(SubSeq(docs, 1, env.k)),
        offsets |-> None]

\* self.docbyoffset(offset): the document that starts `offset` bytes into the
\* file: its payload runs to the next terminator or to the end of the file.
RECURSIVE payloadFrom(_, _)
payloadFrom(bytes, pos) ==
  IF pos > Len(bytes) \/ bytes[pos] = 0 THEN 0 ELSE 1 + payloadFrom(bytes, pos + 1)

docbyoffset(bytes, offset) == payloadFrom(bytes, offset + 1)

\* iter(self): the documents of the file, in order.
RECURSIVE iterDocs(_, _)
iterDocs(bytes, pos) ==
  IF pos > Len(bytes) THEN <<>>
  ELSE LET d == payloadFrom(bytes, pos)
       IN <<d>> \o iterDocs(bytes, pos + d + 1)

\* ------------------------------------------------------ IndexedCorpus ----
\* As indexName, had a given index_fname been ignored.
indexName_alwaysDefault(fname, index_fname) == fname \o ".index"

\* index_fname, or fname + '.index' when it is None (__init__ and serialize alike).
indexName(fname, index_fname) ==
  IF index_fname = None THEN fname \o ".index" ELSE Val(index_fname)

\* As caught, had the handler been `except IOError:`.
caught_IOErrorOnly(exception) == exception = "IOError"

\* The bare `except:` of __init__ catches every exception.
caught(exception) == TRUE

\* __init__(self, fname, index_fname=None): the exception that leaves the
\* constructor (or "ok") and the fields of the new object.
init(fname, index_fname, indexFile) ==
  LET loaded == unpickle(indexFile[indexName(fname, index_fname)])
  IN IF loaded.raised = "ok"
     THEN [raised |-> "ok",
           self |-> [fname |-> fname, index |-> Some(loaded.obj), length |-> None]]
     ELSE IF caught(loaded.raised)
     THEN [raised |-> "ok",
           self |-> [fname |-> fname, index |-> None, length |-> None]]
     ELSE [raised |-> loaded.raised,
           self |-> [fname |-> fname, index |-> None, length |-> None]]

\* As afterLoad, had the constructor created an empty index where it can load none.
afterLoad_emptyCreated(index_fname, indexFile) ==
  IF unpickle(indexFile[index_fname]).raised = "ok" THEN indexFile
  ELSE [indexFile EXCEPT ![index_fname] = pickle(<<>>)]

\* utils.unpickle only reads: the index files after the constructor are as they
\* were.
afterLoad(index_fname, indexFile) == indexFile

\* As sameFile, had the comparison been made with the index file name.
sameFile_indexName(fname, corpus) ==
  corpus.fname # None /\ fname \o ".index" = Val(corpus.fname)

\* As sameFile, had every corpus that has an fname been refused.
sameFile_anyFile(fname, corpus) == corpus.fname # None

\* `if hasattr(corpus, 'fname'): if fname == corpus.fname`
sameFile(fname, corpus) == corpus.fname # None /\ fname = Val(corpus.fname)

\* As saveKwargs, had one call passed both, `labels=labels, progress_cnt=progress_cnt`.
saveKwargs_always(progress_cnt, labels) == {"labels", "progress_cnt"}

\* The keyword arguments the four save_corpus calls pass.
saveKwargs(progress_cnt, labels) ==
  IF progress_cnt # None
  THEN IF labels # None THEN {"labels", "progress_cnt"} ELSE {"progress_cnt"}
  ELSE IF labels # None THEN {"labels"} ELSE {}

\* As noOffsets, had the test been the truth value, `if not offsets:`.
noOffsets_falsy(offsets) == offsets = None \/ offsets = Some(<<>>)

\* `if offsets is None`
noOffsets(offsets) == offsets = None

RECURSIVE reversed(_)
reversed(seq) == IF seq = <<>> THEN <<>> ELSE reversed(Tail(seq)) \o <<Head(seq)>>

\* As storeIndex, had the offsets been pickled last document first.
storeIndex_reversed(offsets, index_fname, indexFile) ==
  [indexFile EXCEPT ![index_fname] = pickle(reversed(offsets))]

\* As storeIndex, had the offsets been added to the index already in the file.
storeIndex_appended(offsets, index_fname, indexFile) ==
  [indexFile EXCEPT ![index_fname] =
     IF @.kind = "pickle" THEN pickle(@.data \o offsets) ELSE pickle(offsets)]

\* utils.pickle(offsets, index_fname): the index files after the call.
storeIndex(offsets, index_fname, indexFile) ==
  [indexFile EXCEPT ![index_fname] = pickle(offsets)]

\* As persist, had None been taken for an empty list, `offsets or []`.
persist_emptyForNone(offsets, index_fname, indexFile) ==
  [raised |-> "ok",
   indexFile |-> storeIndex(IF offsets = None THEN <<>> ELSE Val(offsets),
                            index_fname, indexFile),
   calls |-> <<"pickle">>]

\* As afterFailedWrite, had serialize removed the index file on the way out.
afterFailedWrite_indexRemoved(index_fname, indexFile) ==
  [indexFile EXCEPT ![index_fname] = Absent]

\* An exception of save_corpus leaves serialize at once, no handler and no
\* cleanup on the way: the index files are as they were.
afterFailedWrite(index_fname, indexFile) == indexFile

\* As propagated, had serialize wrapped the exception in one of its own.
propagated_wrapped(exception) == "RuntimeError"

\* No try statement surrounds the save_corpus calls: the exception that leaves
\* serialize is the one save_corpus raised.
propagated(exception) == exception

\* The end of serialize, once save_corpus has returned `offsets`: the check for
\* None and the pickling of the offsets.
persist(offsets, index_fname, indexFile) ==
  IF noOffsets(offsets)
  THEN [raised |-> "NotImplementedError", indexFile |-> indexFile, calls |-> <<>>]
  ELSE [raised |-> "ok", indexFile |-> storeIndex(Val(offsets), index_fname, indexFile),
        calls |-> <<"pickle">>]

\* As serialize, had the test for the source's own file come after the write.
serialize_writeFirst(serializer, fname, corpus, id2word, index_fname, progress_cnt, labels, env, backing, indexFile) ==
  LET ifn == indexName(fname, index_fname)
      w == save_corpus(serializer, corpus.docs, env)
      written == [backing EXCEPT ![fname] = Some(w.bytes)]
      kw == saveKwargs(progress_cnt, labels)
      end == persist(w.offsets, ifn, indexFile)
      rejected == sameFile(fname, corpus)
  IN [raised |-> IF w.raised # "ok" THEN w.raised
                 ELSE IF rejected THEN "ValueError" ELSE end.raised,
      backing |-> written,
      indexFile |-> IF w.raised # "ok" \/ rejected THEN indexFile ELSE end.indexFile,
      calls |-> IF w.raised # "ok" \/ rejected THEN <<"save_corpus">>
                ELSE <<"save_corpus">> \o end.calls,
      kwargs |-> kw, id2word |-> Some(id2word),
      returned |-> IF w.raised # "ok" THEN "raised"
                   ELSE IF w.offsets = None THEN "None" ELSE "offsets",
      offsets |-> IF rejected THEN None ELSE w.offsets,
      wraised |-> w.raised, target |-> Some(fname), source |-> Some(corpus)]

\* serialize(serializer, fname, corpus, id2word, index_fname, progress_cnt, labels):
\* the exception raised (or "ok"), the files afterwards, the collaborators called
\* in order, what save_corpus was passed (target, source, id2word, kwargs), what
\* it returned ("offsets", "None", or "raised" when it did not return) and what
\* it raised.
serialize(serializer, fname, corpus, id2word, index_fname, progress_cnt, labels, env, backing, indexFile) ==
  IF sameFile(fname, corpus)
  THEN [raised |-> "ValueError", backing |-> backing, indexFile |-> indexFile,
        calls |-> <<>>, kwargs |-> {}, id2word |-> None, returned |-> "",
        offsets |-> None, wraised |-> "", target |-> None, source |-> None]
  ELSE LET ifn == indexName(fname, index_fname)
           w == save_corpus(serializer, corpus.docs, env)
           written == [backing EXCEPT ![fname] = Some(w.bytes)]
           kw == saveKwargs(progress_cnt, labels)
       IN IF w.raised # "ok"
          THEN [raised |-> propagated(w.raised), backing |-> written,
                indexFile |-> afterFailedWrite(ifn, indexFile),
                calls |-> <<"save_corpus">>, kwargs |-> kw, id2word |-> Some(id2word),
                returned |-> "raised", offsets |-> None, wraised |-> w.raised,
                target |-> Some(fname), source |-> Some(corpus)]
          ELSE LET end == persist(w.offsets, ifn, indexFile)
               IN [raised |-> end.raised, backing |-> written,
                   indexFile |-> end.indexFile,
                   calls |-> <<"save_corpus">> \o end.calls, kwargs |-> kw,
                   id2word |-> Some(id2word),
                   returned |-> IF w.offsets = None THEN "None" ELSE "offsets",
                   offsets |-> w.offsets, wraised |-> w.raised,
                   target |-> Some(fname), source |-> Some(corpus)]

\* As hasIndex, had the test been the truth value, `if self.index:`.
hasIndex_truthy(self) == self.index # None /\ Val(self.index) # <<>>

\* `if self.index is not None` of __len__
hasIndex(self) == self.index # None

\* As lengthUnknown, had the test been the truth value, `if not self.length:`.
lengthUnknown_falsy(self) == self.length = None \/ self.length = Some(0)

\* As lengthUnknown, had the cached length never been consulted.
lengthUnknown_always(self) == TRUE

\* `if self.length is None`
lengthUnknown(self) == self.length = None

\* As len, had the iteration of an unindexed corpus also built self.index.
len_indexBuilt(self, file) ==
  IF self.index # None
  THEN [raised |-> "ok", ret |-> Some(Len(Val(self.index))), self |-> self, scanned |-> FALSE]
  ELSE IF self.length = None
  THEN IF file = None
       THEN [raised |-> "IOError", ret |-> None, self |-> self, scanned |-> FALSE]
       ELSE LET docs == iterDocs(Val(file), 1)
            IN [raised |-> "ok", ret |-> Some(Len(docs)),
                self |-> [self EXCEPT !.length = Some(Len(docs)),
                                      !.index = Some(docOffsets(docs, 0))],
                scanned |-> TRUE]
  ELSE [raised |-> "ok", ret |-> self.length, self |-> self, scanned |-> FALSE]

\* __len__(self): the value returned (or the exception of the iteration), the
\* object afterwards and whether the documents were iterated. `file` is the
\* corpus file of self: None when it does not exist.
len(self, file) ==
  IF hasIndex(self)
  THEN [raised |-> "ok", ret |-> Some(Len(Val(self.index))), self |-> self, scanned |-> FALSE]
  ELSE IF lengthUnknown(self)
  THEN IF file = None
       THEN [raised |-> "IOError", ret |-> None, self |-> self, scanned |-> FALSE]
       ELSE LET n == Len(iterDocs(Val(file), 1))
            IN [raised |-> "ok", ret |-> Some(n),
                self |-> [self EXCEPT !.length = Some(n)], scanned |-> TRUE]
  ELSE [raised |-> "ok", ret |-> self.length, self |-> self, scanned |-> FALSE]

\* As listItem, had the ordinal wrapped around the end of a non-empty list.
listItem_wrapped(seq, i) ==
  IF seq = <<>> THEN [raised |-> TRUE, item |-> 0]
  ELSE [raised |-> FALSE, item |-> seq[(i % Len(seq)) + 1]]

\* Python's seq[i] for an integer i: i counts from the end when negative, and
\* IndexError outside [-len(seq), len(seq)).
listItem(seq, i) ==
  IF 0 <= i /\ i < Len(seq) THEN [raised |-> FALSE, item |-> seq[i + 1]]
  ELSE IF i < 0 /\ 0 - Len(seq) <= i THEN [raised |-> FALSE, item |-> seq[Len(seq) + i + 1]]
  ELSE [raised |-> TRUE, item |-> 0]

\* `if self.index is None` of __getitem__
noIndex(self) == self.index = None

\* As getitem, had it read the documents in order when there is no index.
getitem_scanFallback(self, docno, file) ==
  LET docs == IF file = None THEN <<>> ELSE iterDocs(Val(file), 1)
  IN IF self.index = None
     THEN IF 0 <= docno /\ docno < Len(docs)
          THEN [raised |-> "ok", ret |-> Some(docs[docno + 1]), calls |-> <<>>]
          ELSE [raised |-> "IndexError", ret |-> None, calls |-> <<>>]
     ELSE IF listItem(Val(self.index), docno).raised
     THEN [raised |-> "IndexError", ret |-> None, calls |-> <<>>]
     ELSE IF file = None
     THEN [raised |-> "IOError", ret |-> None, calls |-> <<"docbyoffset">>]
     ELSE [raised |-> "ok",
           ret |-> Some(docbyoffset(Val(file), listItem(Val(self.index), docno).item)),
           calls |-> <<"docbyoffset">>]

\* __getitem__(self, docno): the document returned (or the exception) and the
\* collaborators called.
getitem(self, docno, file) ==
  IF noIndex(self)
  THEN [raised |-> "RuntimeError", ret |-> None, calls |-> <<>>]
  ELSE LET at == listItem(Val(self.index), docno)
       IN IF at.raised
          THEN [raised |-> "IndexError", ret |-> None, calls |-> <<>>]
          ELSE IF file = None
          THEN [raised |-> "IOError", ret |-> None, calls |-> <<"docbyoffset">>]
          ELSE [raised |-> "ok", ret |-> Some(docbyoffset(Val(file), at.item)),
                calls |-> <<"docbyoffset">>]

\* ---------------------------------------------------------------- state ----
VARIABLES
  backing,    \* corpus file -> None, or Some(its bytes)
  indexFile,  \* index file -> the blob in it
  handle,     \* handle -> None, or Some(the fields of the IndexedCorpus object)
  scans,      \* handle -> full iterations of the documents its __len__ has made
  done,       \* index file -> None, or Some(the last serialize that pickled into it)
  last        \* the last call: its arguments and its outcome

vars == <<backing, indexFile, handle, scans, done, last>>

\* The optional arguments of a call as the caller gave them.
NoArgs == [index_fname |-> None, id2word |-> None, progress_cnt |-> None, labels |-> None]

NoCall ==
  [op |-> "none", h |-> "", fname |-> "", ipath |-> "", src |-> None, docno |-> 0,
   raised |-> "ok", ret |-> None, calls |-> <<>>, kwargs |-> {}, id2word |-> None,
   returned |-> "", args |-> NoArgs, wraised |-> "", target |-> None,
   sourcePassed |-> FALSE]

\* A corpus "y" of two documents exists beforehand; no index file holds anything
\* loadable.
Init ==
  /\ backing = [p \in Paths |-> IF p = "y" THEN Some(corpusBytes(<<2, 1>>)) ELSE None]
  /\ \E blob \in {Absent, Garbage, Truncated} : indexFile = [ip \in IndexPaths |-> blob]
  /\ handle = [h \in Handles |-> None]
  /\ scans = [h \in Handles |-> 0]
  /\ done = [ip \in IndexPaths |-> None]
  /\ last = NoCall

\* The readers of each serialized index once handle h is bound to a new object
\* on corpus file fname with index file ifn.
readersAfter(h, fname, ifn) ==
  [ip \in IndexPaths |->
     IF done[ip] = None THEN None
     ELSE Some([Val(done[ip]) EXCEPT !.readers =
                  IF ip = ifn /\ Val(done[ip]).fname = fname
                  THEN @ \cup {h} ELSE @ \ {h}])]

\* corpus = IndexedCorpus(fname, index_fname)
Open(h, fname, index_fname) ==
  LET r == init(fname, index_fname, indexFile)
  IN /\ handle' = [handle EXCEPT ![h] = IF r.raised = "ok" THEN Some(r.self) ELSE None]
     /\ scans' = [scans EXCEPT ![h] = 0]
     /\ done' = readersAfter(h, fname, indexName(fname, index_fname))
     /\ last' = [NoCall EXCEPT !.op = "open", !.h = h, !.fname = fname,
                               !.ipath = indexName(fname, index_fname),
                               !.raised = r.raised,
                               !.args = [NoArgs EXCEPT !.index_fname = index_fname]]
     /\ indexFile' = afterLoad(indexName(fname, index_fname), indexFile)
     /\ UNCHANGED backing

\* The ways a write can end: it completes, or it stops (an I/O error, the death
\* of the process) with the first k documents on disk.
Envs(docs) ==
  {[status |-> "ok", k |-> Len(docs)]}
    \cup {[status |-> s, k |-> k] : s \in {"IOError", "crash"}, k \in 0..Len(docs)}

\* What the index files were last pickled from, after a serialize of `docs` to
\* `fname` with outcome r: the stream, the offsets save_corpus returned, whether
\* the corpus file is still the one of that write (a later write to fname ends
\* that) and the handles opened on this corpus file and index file since.
doneAfter(fname, ifn, docs, r) ==
  IF r.calls = <<>> THEN done
  ELSE [ip \in IndexPaths |->
          IF r.raised = "ok" /\ r.offsets # None /\ ip = ifn
          THEN Some([fname |-> fname, docs |-> docs, offsets |-> Val(r.offsets),
                     sync |-> TRUE, readers |-> {}])
          ELSE IF done[ip] # None /\ Val(done[ip]).fname = fname
          THEN Some([Val(done[ip]) EXCEPT !.sync = FALSE])
          ELSE done[ip]]

\* Serializer.serialize(fname, corpus, id2word, index_fname, progress_cnt, labels)
\* with corpus an in-memory list (src = None) or a corpus object on file Val(src).
Serialize(serializer, fname, src, stream, id2word, index_fname, progress_cnt, labels) ==
  /\ src # None => backing[Val(src)] # None /\ stream = <<>>
  /\ LET docs == IF src = None THEN stream ELSE iterDocs(Val(backing[Val(src)]), 1)
         corpus == [fname |-> src, docs |-> docs]
     IN \E env \in Envs(docs) :
          /\ serializer = "plain" => env.status = "ok"
          /\ LET r == serialize(serializer, fname, corpus, id2word, index_fname,
                                progress_cnt, labels, env, backing, indexFile)
             IN /\ backing' = r.backing
                /\ indexFile' = r.indexFile
                /\ done' = doneAfter(fname, indexName(fname, index_fname), docs, r)
                /\ last' = [NoCall EXCEPT !.op = "serialize", !.fname = fname,
                                          !.ipath = indexName(fname, index_fname),
                                          !.src = src, !.raised = r.raised,
                                          !.calls = r.calls, !.kwargs = r.kwargs,
                                          !.id2word = r.id2word,
                                          !.returned = r.returned,
                                          !.args = [index_fname |-> index_fname,
                                                    id2word |-> id2word,
                                                    progress_cnt |-> progress_cnt,
                                                    labels |-> labels],
                                          !.wraised = r.wraised,
                                          !.target = r.target,
                                          !.sourcePassed = (r.source = Some(corpus))]
  /\ UNCHANGED <<handle, scans>>

\* len(corpus)
Length(h) ==
  /\ handle[h] # None
  /\ LET self == Val(handle[h])
         r == len(self, backing[self.fname])
     IN /\ handle' = [handle EXCEPT ![h] = Some(r.self)]
        /\ scans' = [scans EXCEPT ![h] = IF r.scanned THEN @ + 1 ELSE @]
        /\ last' = [NoCall EXCEPT !.op = "len", !.h = h, !.fname = self.fname,
                                  !.raised = r.raised, !.ret = r.ret]
  /\ UNCHANGED <<backing, indexFile, done>>

\* corpus[docno]
Get(h, docno) ==
  /\ handle[h] # None
  /\ LET self == Val(handle[h])
         r == getitem(self, docno, backing[self.fname])
     IN last' = [NoCall EXCEPT !.op = "get", !.h = h, !.fname = self.fname,
                               !.docno = docno, !.raised = r.raised, !.ret = r.ret,
                               !.calls = r.calls]
  /\ UNCHANGED <<backing, indexFile, handle, scans, done>>

Serializers == {"indexable", "plain"}
Targets == {"x"}
Sources == {None} \cup {Some(p) : p \in Paths}
IndexNames == {None} \cup {Some(ip) : ip \in IndexPaths}

Next ==
  \/ \E h \in Handles, fname \in Paths, index_fname \in IndexNames :
       Open(h, fname, index_fname)
  \/ \E serializer \in Serializers, fname \in Targets, src \in Sources,
        stream \in Streams :
       Serialize(serializer, fname, src, stream, None, None, None, None)
  \/ \E h \in Handles : Length(h)
  \/ \E h \in Handles, docno \in DocNos : Get(h, docno)

Spec == Init /\ [][Next]_vars

\* The state before any call, no index file existing yet.
InitNoIndex == Init /\ indexFile = [ip \in IndexPaths |-> Absent]

\* The same class with the index file of serialize given or left out.
NextPaths ==
  \/ \E h \in Handles, fname \in Targets, index_fname \in IndexNames :
       Open(h, fname, index_fname)
  \/ \E fname \in Targets, stream \in Streams, index_fname \in IndexNames :
       Serialize("indexable", fname, None, stream, None, index_fname, None, None)

SpecPaths == InitNoIndex /\ [][NextPaths]_vars

\* The same class with id2word, progress_cnt and labels of serialize each given
\* or left out.
Id2Words == {None, Some("id2word")}
ProgressCnts == {None, Some(1)}
Labels == {None, Some(TRUE)}

NextArgs ==
  \/ \E h \in Handles, fname \in Paths : Open(h, fname, None)
  \/ \E fname \in Targets, stream \in Streams, id2word \in Id2Words,
        progress_cnt \in ProgressCnts, labels \in Labels :
       Serialize("indexable", fname, None, stream, id2word, None, progress_cnt, labels)

SpecArgs == InitNoIndex /\ [][NextArgs]_vars

\* The same class with two objects alive at once, on the same corpus file or
\* on different ones, each with the default index file.
Readers == {"h1", "h2"}

InitReaders ==
  /\ backing = [p \in Paths |-> IF p = "y" THEN Some(corpusBytes(<<2, 1>>)) ELSE None]
  /\ indexFile = [ip \in IndexPaths |-> Absent]
  /\ handle = [h \in Readers |-> None]
  /\ scans = [h \in Readers |-> 0]
  /\ done = [ip \in IndexPaths |-> None]
  /\ last = NoCall

NextReaders ==
  \/ \E h \in Readers, fname \in Paths : Open(h, fname, None)
  \/ \E fname \in Targets, stream \in Streams :
       Serialize("indexable", fname, None, stream, None, None, None, None)
  \/ \E h \in Readers : Length(h)
  \/ \E h \in Readers : Get(h, 0)

SpecReaders == InitReaders /\ [][NextReaders]_vars

\* --------------------------------------------------------------- claims ----
\* C1: after a successful serialize of a stream of N documents to a corpus file
\* and an index file, a handle opened on that corpus file with that index file
\* returns from corpus[i], for every 0 <= i < N, the i-th document of the stream:
\* what docbyoffset returns for the i-th offset save_corpus returned.
C1_GetReturnsIthDocument ==
  \A ip \in IndexPaths : done[ip] # None =>
    LET d == Val(done[ip])
    IN \A h \in d.readers :
         (/\ d.sync
          /\ last.op = "get" /\ last.h = h
          /\ 0 <= last.docno /\ last.docno < Len(d.docs))
         => /\ last.raised = "ok"
            /\ last.calls = <<"docbyoffset">>
            /\ last.ret = Some(docbyoffset(Val(backing[d.fname]), d.offsets[last.docno + 1]))
            /\ last.ret = Some(d.docs[last.docno + 1])

\* The second of two documents of different sizes has been fetched.
C1_Witness ==
  \E ip \in IndexPaths : done[ip] # None /\
    LET d == Val(done[ip])
    IN /\ d.sync /\ last.op = "get" /\ last.h \in d.readers
       /\ Len(d.docs) = 2 /\ d.docs[1] # d.docs[2]
       /\ last.docno = 1 /\ last.ret = Some(d.docs[2])

\* C2: after a successful serialize of N documents (N >= 0), a handle opened with
\* the index it wrote is indexed and len() returns N from the loaded index: it
\* iterates no documents and leaves self.length unset.
C2_LengthFromIndex ==
  \A ip \in IndexPaths : done[ip] # None =>
    LET d == Val(done[ip])
    IN \A h \in d.readers :
         /\ handle[h] # None
         /\ Val(handle[h]).index # None
         /\ scans[h] = 0
         /\ Val(handle[h]).length = None
         /\ (last.op = "len" /\ last.h = h) =>
              last.raised = "ok" /\ last.ret = Some(Len(d.docs))

\* len() has answered 0 for the index of an empty stream.
C2_Witness ==
  \E ip \in IndexPaths : done[ip] # None /\
    LET d == Val(done[ip])
    IN /\ last.op = "len" /\ last.h \in d.readers
       /\ d.docs = <<>> /\ last.ret = Some(0)

\* C3: whatever serialize calls came before, the index file holds exactly the
\* offsets save_corpus returned in the last successful serialize to it, one per
\* document of that stream, and a handle opened since has loaded those offsets
\* and reports that stream's count.
C3_IndexReplacedWholesale ==
  \A ip \in IndexPaths : done[ip] # None =>
    LET d == Val(done[ip])
    IN /\ indexFile[ip] = pickle(d.offsets)
       /\ Len(d.offsets) = Len(d.docs)
       /\ \A h \in d.readers :
            /\ handle[h] # None
            /\ Val(handle[h]).index = Some(d.offsets)
            /\ (last.op = "len" /\ last.h = h) => last.ret = Some(Len(d.docs))

\* A handle still holds the longer index of an earlier serialize to the same
\* corpus file while the index file holds the shorter one of the last.
C3_Witness ==
  \E ip \in IndexPaths, h \in Handles :
    /\ done[ip] # None /\ handle[h] # None
    /\ Val(handle[h]).index # None
    /\ Val(handle[h]).fname = Val(done[ip]).fname
    /\ Len(Val(Val(handle[h]).index)) > Len(Val(done[ip]).offsets)
    /\ Len(Val(done[ip]).offsets) > 0
    /\ indexFile[ip] = pickle(Val(done[ip]).offsets)

\* C4: serialize to the file the source corpus is read from raises ValueError
\* before save_corpus is called, and creates or changes neither the corpus file
\* nor any index file.
C4_SelfOverwriteRejected ==
  [][(last'.op = "serialize" /\ last'.src = Some(last'.fname))
       => /\ last'.raised = "ValueError"
          /\ last'.calls = <<>>
          /\ backing' = backing
          /\ indexFile' = indexFile]_vars

\* serialize of the corpus on file x to x has been refused.
C4_Witness ==
  /\ last.op = "serialize" /\ last.src = Some(last.fname)
  /\ last.raised = "ValueError" /\ backing[last.fname] # None

\* C5: the constructor raises nothing, whatever the index file holds (nothing,
\* bytes that do not unpickle, a valid offset list): the object is indexed
\* exactly when the load succeeded, and unindexed with self.length unset otherwise.
C5_OpenNeverFails ==
  last.op = "open" =>
    /\ last.raised = "ok"
    /\ handle[last.h] # None
    /\ Val(handle[last.h]).length = None
    /\ LET loaded == unpickle(indexFile[last.ipath])
       IN IF loaded.raised = "ok"
          THEN Val(handle[last.h]).index = Some(loaded.obj)
          ELSE Val(handle[last.h]).index = None

\* A handle has been opened on an index file whose bytes do not unpickle.
C5_Witness ==
  /\ last.op = "open" /\ handle[last.h] # None
  /\ indexFile[last.ipath] = Garbage
  /\ Val(handle[last.h]).index = None

C7_GetNeedsIndex ==
  [][(/\ last'.op = "get"
      /\ handle[last'.h] # None
      /\ Val(handle[last'.h]).index = None)
     => /\ last'.raised = "RuntimeError"
        /\ last'.ret = None
        /\ last'.calls = <<>>
        /\ handle' = handle
        /\ scans' = scans]_vars

\* corpus[docno], for a docno the corpus file has a document for, has been
\* refused on an unindexed handle that has its length cached.
C7_Witness ==
  /\ last.op = "get" /\ last.raised = "RuntimeError"
  /\ handle[last.h] # None
  /\ Val(handle[last.h]).length # None
  /\ 0 <= last.docno /\ last.docno < Val(Val(handle[last.h]).length)

\* C8 as stated: on an indexed handle of L offsets corpus[docno] raises
\* IndexError, without calling docbyoffset, for every docno >= L and for every
\* negative docno.
C8_AsStated ==
  (/\ last.op = "get"
   /\ handle[last.h] # None
   /\ Val(handle[last.h]).index # None
   /\ (last.docno < 0 \/ last.docno >= Len(Val(Val(handle[last.h]).index))))
  => last.raised = "IndexError" /\ last.calls = <<>>

\* C8, amended: on an indexed handle of L offsets corpus[docno] raises IndexError,
\* without calling docbyoffset, for every docno >= L and every docno < -L; for
\* -L <= docno < 0 it calls docbyoffset with offset number L + docno.
C8_OutOfRange ==
  (/\ last.op = "get"
   /\ handle[last.h] # None
   /\ Val(handle[last.h]).index # None)
  => LET index == Val(Val(handle[last.h]).index)
         file == backing[Val(handle[last.h]).fname]
     IN /\ (last.docno >= Len(index) \/ last.docno < 0 - Len(index))
             => last.raised = "IndexError" /\ last.calls = <<>>
        /\ (0 - Len(index) <= last.docno /\ last.docno < 0)
             => /\ last.calls = <<"docbyoffset">>
                /\ last.raised = "ok"
                     => last.ret = Some(docbyoffset(Val(file),
                                                    index[Len(index) + last.docno + 1]))

\* IndexError has been raised for a docno below -L on a non-empty index.
C8_Witness ==
  /\ last.op = "get" /\ last.raised = "IndexError"
  /\ handle[last.h] # None
  /\ Val(handle[last.h]).index # None
  /\ Len(Val(Val(handle[last.h]).index)) > 0
  /\ last.docno < 0 - Len(Val(Val(handle[last.h]).index))

\* C9: when save_corpus returns None, serialize raises NotImplementedError and
\* pickles nothing: every index file is what it was before the call, absent or
\* with the contents an earlier serialize gave it.
C9_NoOffsetsNoIndex ==
  [][(last'.op = "serialize" /\ last'.returned = "None")
       => /\ last'.raised = "NotImplementedError"
          /\ last'.calls = <<"save_corpus">>
          /\ indexFile' = indexFile]_vars

\* serialize with a format that returns no offsets has failed and the index of
\* an earlier serialize is still in the file.
C9_Witness ==
  /\ last.op = "serialize" /\ last.returned = "None"
  /\ last.raised = "NotImplementedError"
  /\ done[last.ipath] # None
  /\ indexFile[last.ipath] = pickle(Val(done[last.ipath]).offsets)

\* C10 as stated: after a serialize that save_corpus did not complete, the index
\* file holds no index and the next constructor call on these paths is
\* unindexed, whatever came before.
C10_AsStated ==
  (last.op = "serialize" /\ last.returned = "raised")
  => /\ unpickle(indexFile[last.ipath]).raised # "ok"
     /\ init(last.fname, Some(last.ipath), indexFile).self.index = None

\* C10, amended: a serialize that save_corpus did not complete leaves every index
\* file as it was before the call: the next constructor call on these paths is
\* unindexed when the file held no loadable index, and loads the index of the
\* earlier successful serialize when it held one.
C10_InterruptedLeavesIndex ==
  [][(last'.op = "serialize" /\ last'.returned = "raised")
       => /\ last'.calls = <<"save_corpus">>
          /\ indexFile' = indexFile
          /\ LET before == unpickle(indexFile[last'.ipath])
                 next == init(last'.fname, Some(last'.ipath), indexFile')
             IN /\ next.raised = "ok"
                /\ next.self.index =
                     IF before.raised = "ok" THEN Some(before.obj) ELSE None]_vars

\* A write has stopped part way through a stream while the index of an earlier
\* successful serialize to the same paths is in the index file.
C10_Witness ==
  /\ last.op = "serialize" /\ last.returned = "raised"
  /\ done[last.ipath] # None
  /\ Val(done[last.ipath]).fname = last.fname
  /\ ~Val(done[last.ipath]).sync
  /\ indexFile[last.ipath] = pickle(Val(done[last.ipath]).offsets)

\* C11: when save_corpus raises, serialize raises that same exception, has
\* called save_corpus once and nothing after it, and has pickled nothing: every
\* index file is what it was before the call.
C11_WriteErrorPropagates ==
  [][(last'.op = "serialize" /\ last'.returned = "raised")
       => /\ last'.wraised # "ok"
          /\ last'.raised = last'.wraised
          /\ last'.calls = <<"save_corpus">>
          /\ indexFile' = indexFile]_vars

\* The IOError of a write that stopped has left serialize.
C11_Witness ==
  /\ last.op = "serialize" /\ last.returned = "raised"
  /\ last.wraised = "IOError" /\ last.raised = "IOError"

\* C13: every serialize call runs its steps in one order: the test for the
\* source's own file, then save_corpus once, then the test for None, then
\* pickle once, with the offsets save_corpus returned; a call that stops at a
\* step has run none of the later ones.
C13_StepsInOrder ==
  last.op = "serialize" =>
    /\ last.calls \in {<<>>, <<"save_corpus">>, <<"save_corpus", "pickle">>}
    /\ last.raised = "ValueError" => last.calls = <<>>
    /\ last.calls = <<>> => last.raised = "ValueError" /\ last.returned = ""
    /\ last.returned \in {"raised", "None"} =>
         last.calls = <<"save_corpus">> /\ last.raised # "ok"
    /\ last.returned = "offsets" =>
         /\ last.calls = <<"save_corpus", "pickle">>
         /\ last.raised = "ok"
         /\ done[last.ipath] # None
         /\ indexFile[last.ipath] = pickle(Val(done[last.ipath]).offsets)

\* save_corpus and then pickle have run, and the index file holds the two
\* offsets save_corpus returned.
C13_Witness ==
  /\ last.op = "serialize" /\ last.calls = <<"save_corpus", "pickle">>
  /\ done[last.ipath] # None
  /\ Len(Val(done[last.ipath]).offsets) = 2
  /\ indexFile[last.ipath] = pickle(Val(done[last.ipath]).offsets)

\* C18: serialize raises ValueError exactly when the source has an fname and it
\* equals the target: an in-memory source and a source on another file always
\* reach save_corpus, called with the target.
C18_RejectedIffSameFile ==
  last.op = "serialize" =>
    /\ last.raised = "ValueError" <=> last.src = Some(last.fname)
    /\ last.src # Some(last.fname) =>
         /\ last.calls # <<>>
         /\ Head(last.calls) = "save_corpus"
         /\ last.target = Some(last.fname)

\* A corpus on file y has been serialized to x.
C18_Witness ==
  /\ last.op = "serialize" /\ last.src = Some("y") /\ last.fname = "x"
  /\ last.raised = "ok" /\ last.calls = <<"save_corpus", "pickle">>

\* C19: an empty offset list is an index: when save_corpus returns [] serialize
\* succeeds and pickles it, a handle opened on it is indexed, len() returns 0
\* without iterating and corpus[docno] raises IndexError, not RuntimeError, for
\* every docno.
C19_EmptyIndexIsAnIndex ==
  /\ (last.op = "serialize" /\ last.returned = "offsets"
      /\ backing[last.fname] = Some(<<>>))
     => /\ last.raised = "ok"
        /\ indexFile[last.ipath] = pickle(<<>>)
        /\ init(last.fname, last.args.index_fname, indexFile).self.index = Some(<<>>)
  /\ \A ip \in IndexPaths : (done[ip] # None /\ Val(done[ip]).offsets = <<>>) =>
       \A h \in Val(done[ip]).readers :
         /\ handle[h] # None
         /\ Val(handle[h]).index = Some(<<>>)
         /\ scans[h] = 0
         /\ (last.op = "len" /\ last.h = h) => last.ret = Some(0)
         /\ (last.op = "get" /\ last.h = h) =>
              last.raised = "IndexError" /\ last.calls = <<>>

\* corpus[0] has raised IndexError on a handle opened on the index of an empty
\* stream.
C19_Witness ==
  \E ip \in IndexPaths :
    /\ done[ip] # None /\ Val(done[ip]).offsets = <<>>
    /\ last.op = "get" /\ last.h \in Val(done[ip]).readers
    /\ last.docno = 0 /\ last.raised = "IndexError"

\* C12: serialize and the constructor use the same index file: fname + '.index'
\* when index_fname is left out, index_fname alone when it is given. A
\* successful serialize pickles into that file and into no other, so the
\* constructor called with the same arguments is indexed; after a serialize to
\* another index file the constructor with the default sees what fname + '.index'
\* held before.
C12_SameIndexPath ==
  [][/\ (last'.op = "serialize" /\ last'.raised = "ok")
        => LET fname == last'.fname
               given == last'.args.index_fname
               P == IF given = None THEN fname \o ".index" ELSE Val(given)
           IN /\ indexFile'[P].kind = "pickle"
              /\ Len(indexFile'[P].data) = Len(iterDocs(Val(backing'[fname]), 1))
              /\ \A ip \in IndexPaths \ {P} : indexFile'[ip] = indexFile[ip]
              /\ init(fname, given, indexFile').self.index = Some(indexFile'[P].data)
              /\ P # fname \o ".index" =>
                   init(fname, None, indexFile').self.index
                     = init(fname, None, indexFile).self.index
     /\ (last'.op = "open" /\ handle'[last'.h] # None)
        => LET given == last'.args.index_fname
               P == IF given = None THEN last'.fname \o ".index" ELSE Val(given)
               loaded == unpickle(indexFile[P])
           IN Val(handle'[last'.h]).index =
                IF loaded.raised = "ok" THEN Some(loaded.obj) ELSE None]_vars

\* A handle on x opened with the index file given to serialize is indexed while
\* x.index, the default, holds no index.
C12_Witness ==
  /\ last.op = "open" /\ last.fname = "x"
  /\ last.args.index_fname = Some("y.index")
  /\ handle[last.h] # None
  /\ Val(handle[last.h]).index # None
  /\ done["y.index"] # None /\ Val(done["y.index"]).fname = "x"
  /\ indexFile["x.index"].kind # "pickle"

\* C16: save_corpus is always passed the target, the source and id2word, and is
\* passed labels exactly when the caller gave labels and progress_cnt exactly
\* when the caller gave progress_cnt; an argument not given is not passed at all.
C16_OptionsForwarded ==
  (last.op = "serialize" /\ last.calls # <<>>)
  => /\ last.target = Some(last.fname)
     /\ last.sourcePassed
     /\ last.id2word = Some(last.args.id2word)
     /\ last.kwargs \subseteq {"labels", "progress_cnt"}
     /\ "labels" \in last.kwargs <=> last.args.labels # None
     /\ "progress_cnt" \in last.kwargs <=> last.args.progress_cnt # None

\* serialize was given labels and an id2word but no progress_cnt, and save_corpus
\* was passed labels alone.
C16_Witness ==
  /\ last.op = "serialize" /\ last.raised = "ok"
  /\ last.args.labels # None /\ last.args.progress_cnt = None
  /\ last.args.id2word # None
  /\ last.kwargs = {"labels"}

\* C14: whether an object is indexed, and the index it holds, is fixed by its
\* constructor: no len(), corpus[docno] or serialize, and no constructor of
\* another object, changes it. len() and corpus[docno] change no index file; an
\* index file changes only in a successful serialize to that index file.
C14_IndexFixedAtOpen ==
  [][/\ \A h \in DOMAIN handle :
          (handle[h] # None /\ ~(last'.op = "open" /\ last'.h = h))
          => /\ handle'[h] # None
             /\ Val(handle'[h]).index = Val(handle[h]).index
             /\ Val(handle'[h]).fname = Val(handle[h]).fname
     /\ last'.op \in {"len", "get"} => indexFile' = indexFile
     /\ \A ip \in IndexPaths :
          indexFile'[ip] # indexFile[ip]
          => last'.op = "serialize" /\ last'.raised = "ok" /\ last'.ipath = ip]_vars

\* After a serialize to the same paths a handle still holds the index it
\* loaded, which is no longer the one in the index file.
C14_Witness ==
  \E h \in DOMAIN handle :
    /\ handle[h] # None /\ Val(handle[h]).index # None
    /\ last.op = "serialize" /\ last.raised = "ok"
    /\ last.fname = Val(handle[h]).fname
    /\ indexFile[last.ipath] # pickle(Val(Val(handle[h]).index))

C17_ReadersDoNotInterfere ==
  [][last'.op \in {"open", "len", "get"}
       => LET h == last'.h
          IN /\ backing' = backing
             /\ indexFile' = indexFile
             /\ \A g \in DOMAIN handle \ {h} :
                  handle'[g] = handle[g] /\ scans'[g] = scans[g]
             /\ last'.op = "open" =>
                  LET loaded == unpickle(indexFile[last'.ipath])
                  IN handle'[h] =
                       Some([fname |-> last'.fname,
                             index |-> IF loaded.raised = "ok"
                                       THEN Some(loaded.obj) ELSE None,
                             length |-> None])
             /\ (last'.op = "len" /\ last'.raised = "ok") =>
                  LET self == Val(handle[h])
                  IN last'.ret =
                       IF self.index # None THEN Some(Len(Val(self.index)))
                       ELSE IF self.length # None THEN self.length
                       ELSE Some(Len(iterDocs(Val(backing[self.fname]), 1)))
             /\ last'.op = "get" =>
                  LET self == Val(handle[h])
                  IN IF self.index = None THEN last'.raised = "RuntimeError"
                     ELSE IF Val(self.index) = <<>> THEN last'.raised = "IndexError"
                     ELSE IF backing[self.fname] = None THEN last'.raised = "IOError"
                     ELSE last'.ret = Some(docbyoffset(Val(backing[self.fname]),
                                                       Val(self.index)[last'.docno + 1]))]_vars

\* Two indexed objects are open on the same corpus file and index file, one has
\* its answer from corpus[0] after the other was constructed and used.
C17_Witness ==
  \E h \in DOMAIN handle, g \in DOMAIN handle :
    /\ h # g /\ handle[h] # None /\ handle[g] # None
    /\ Val(handle[h]).fname = Val(handle[g]).fname
    /\ Val(handle[h]).index # None
    /\ Val(handle[h]).index = Val(handle[g]).index
    /\ last.op = "get" /\ last.h = h /\ last.raised = "ok" /\ last.ret # None

====
